---- MODULE Spec2Model ----
(***************************************************************************)
(* Model of src/ruleset.py: the RuleSet relation store (addDep,            *)
(* addConflict, areDependent, isCoherent, the _getAll queries) and the     *)
(* Options selection state (constructor, toggle, __switch_on,              *)
(* __switch_off).                                                          *)
(*                                                                         *)
(* The source is Python 2 (print statements, builtin reduce), so map() is  *)
(* eager: every element of a mapped collection is evaluated, and the       *)
(* switch-offs mapped in __switch_on are really performed.                 *)
(*                                                                         *)
(* A call either returns a value or raises.  Results are records           *)
(* [exc, val]: exc = "" for a normal return, "AssertionError" for a failed *)
(* assert, "RuntimeError" for Python's "maximum recursion depth exceeded", *)
(* which is how areDependent's unbounded recursion ends.                   *)
(***************************************************************************)
EXTENDS Integers, FiniteSets, Sequences, TLC

VARIABLES
    deps,         \* RuleSet.__deps: set of <<dest, source>>
    confs,        \* RuleSet.__confs: set of <<sym1, sym2>>, one orientation
    symbols,      \* RuleSet.__symbols
    constructed,  \* an Options object exists over the rule set
    selection,    \* Options.__selection (of the object under construction too)
    last          \* the last call: [op, exc], exc = "" when it returned

vars == <<deps, confs, symbols, constructed, selection, last>>

\* Symbols the callers of Spec use.
Sym == {"a", "b", "c", "d"}

\* Bounds on the number of relations the callers of Spec register.
MaxDeps == 4
MaxConfs == 1

Ok(v) == [exc |-> "", val |-> v]
Raise(e) == [exc |-> e, val |-> FALSE]

Call(op, exc) == [op |-> op, exc |-> exc]

-----------------------------------------------------------------------------
(* RuleSet.areDependent, lines 215-263.  The recursion carries no visited   *)
(* set.  Its call tree is a function of (deps, dest, source) alone, because *)
(* map() evaluates every pair of the cross join; so a pair that comes up    *)
(* again below itself recurs forever, and Python raises RuntimeError.       *)
(* `active` is the chain of calls in progress.                              *)

check_dst(dest) == {p[2] : p \in {q \in deps : q[1] = dest}}

check_src(source) == {p[1] : p \in {q \in deps : q[2] = source}}

RECURSIVE areDependentFrom(_, _, _)
areDependentFrom(dest, source, active) ==
    IF dest \notin symbols \/ source \notin symbols THEN Raise("AssertionError")
    ELSE IF <<dest, source>> \in deps \/ source = dest THEN Ok(TRUE)
    ELSE IF check_dst(dest) \cap check_src(source) # {} THEN Ok(TRUE)
    ELSE IF <<dest, source>> \in active THEN Raise("RuntimeError")
    ELSE LET crs_join == check_dst(dest) \X check_src(source)
             sub == {areDependentFrom(p[1], p[2], active \cup {<<dest, source>>}) :
                        p \in crs_join}
         IN  IF \E r \in sub : r.exc # "" THEN Raise("RuntimeError")
             ELSE Ok(\E r \in sub : r.val)

\* areDependent without its recursion case: direct edges and two-edge chains.
areDependent_noRecursion(dest, source) ==
    IF dest \notin symbols \/ source \notin symbols THEN Raise("AssertionError")
    ELSE Ok(\/ <<dest, source>> \in deps
            \/ source = dest
            \/ check_dst(dest) \cap check_src(source) # {})

areDependent(dest, source) == areDependentFrom(dest, source, {})

-----------------------------------------------------------------------------
(* The derived queries, lines 291-350.                                      *)

getAllDependencies(sym) ==
    IF sym \notin symbols THEN Raise("AssertionError")
    ELSE LET check == symbols \ {sym}
         IN  IF \E c \in check : areDependent(sym, c).exc # ""
             THEN Raise("RuntimeError")
             ELSE Ok({c \in check : areDependent(sym, c).val})

\* _getAllConflicts looking at the first member of each stored pair only.
getAllConflicts_firstOnly(sym) ==
    IF sym \notin symbols THEN Raise("AssertionError")
    ELSE Ok({c[2] : c \in {k \in confs : k[1] = sym}})

getAllConflicts(sym) ==
    IF sym \notin symbols THEN Raise("AssertionError")
    ELSE Ok({c[2] : c \in {k \in confs : k[1] = sym}}
            \cup {c[1] : c \in {k \in confs : k[2] = sym}})

getAllDependants(sym) ==
    IF sym \notin symbols THEN Raise("AssertionError")
    ELSE LET check == symbols \ {sym}
         IN  IF \E c \in check : areDependent(c, sym).exc # ""
             THEN Raise("RuntimeError")
             ELSE Ok({c \in check : areDependent(c, sym).val})

-----------------------------------------------------------------------------
(* RuleSet.isCoherent, lines 163-211.  Python's `and` short-circuits: the   *)
(* right operand is not evaluated when the left one is false.  Both maps    *)
(* run over every conflict before the results are combined.                 *)

\* not areDependent(x0, x1) and not areDependent(x1, x0), line 187
stat1(x) ==
    LET r1 == areDependent(x[1], x[2])
        r2 == areDependent(x[2], x[1])
    IN  IF r1.exc # "" THEN r1
        ELSE IF r1.val THEN Ok(FALSE)
        ELSE IF r2.exc # "" THEN r2
        ELSE Ok(~r2.val)

\* areDependent(x, sym1) and areDependent(x, sym2), line 204
both_dependent(x, sym1, sym2) ==
    LET r1 == areDependent(x, sym1)
        r2 == areDependent(x, sym2)
    IN  IF r1.exc # "" THEN r1
        ELSE IF ~r1.val THEN Ok(FALSE)
        ELSE r2

check_common_dependence(sym1, sym2) ==
    LET rem == symbols \ {sym1, sym2}
        rs == {both_dependent(x, sym1, sym2) : x \in rem}
    IN  IF \E r \in rs : r.exc # "" THEN Raise("RuntimeError")
        ELSE Ok(\E r \in rs : r.val)

isCoherent ==
    LET as == {stat1(x) : x \in confs}
        bs == {check_common_dependence(x[1], x[2]) : x \in confs}
    IN  IF \E r \in as : r.exc # "" THEN Raise("RuntimeError")
        ELSE IF \E r \in bs : r.exc # "" THEN Raise("RuntimeError")
        ELSE Ok((\A r \in as : r.val) /\ ~(\E r \in bs : r.val))

-----------------------------------------------------------------------------
(* Options.__switch_off and Options.__switch_on, lines 35-78, on a          *)
(* selection `sel`.  An outcome is [sel, exc]: the selection the call       *)
(* leaves behind and how it ended.                                          *)

switch_off(sel, opt) ==
    LET s1 == sel \ {opt}
        r  == getAllDependants(opt)
    IN  IF r.exc # "" THEN [sel |-> s1, exc |-> r.exc]
        ELSE [sel |-> s1 \ r.val, exc |-> ""]

\* map(lambda x: self.__switch_off(x), todo): the set is walked in an
\* arbitrary order and the first call that raises ends the walk.
RECURSIVE switch_off_each(_, _)
switch_off_each(sel, todo) ==
    IF todo = {} THEN {[sel |-> sel, exc |-> ""]}
    ELSE UNION { LET r == switch_off(sel, x)
                 IN  IF r.exc # "" THEN {r}
                     ELSE switch_off_each(r.sel, todo \ {x}) : x \in todo }

switch_on(sel, opt) ==
    LET s1 == sel \cup {opt}
        opt_deps == getAllDependencies(opt)
    IN  IF opt_deps.exc # "" THEN {[sel |-> s1, exc |-> opt_deps.exc]}
        ELSE LET s2 == s1 \cup opt_deps.val
                 opt_confs == getAllConflicts(opt).val
                 opt_deps_confs == UNION {getAllConflicts(d).val : d \in opt_deps.val}
             IN  UNION { IF r.exc # "" THEN {r}
                         ELSE switch_off_each(r.sel, opt_deps_confs) :
                         r \in switch_off_each(s2, opt_confs) }

toggle(sel, opt) ==
    IF opt \notin sel THEN switch_on(sel, opt) ELSE {switch_off(sel, opt)}

-----------------------------------------------------------------------------
(* The calls.                                                               *)

Init ==
    /\ deps = {}
    /\ confs = {}
    /\ symbols = {}
    /\ constructed = FALSE
    /\ selection = {}
    /\ last = Call("RuleSet", "")

\* addDep without its dest != source test: the self pair is stored.
AddDep_storesSelf(dest, source) ==
    /\ deps' = deps \cup {<<dest, source>>}
    /\ symbols' = symbols \cup {dest, source}
    /\ last' = Call("addDep", "")
    /\ UNCHANGED <<confs, constructed, selection>>

\* RuleSet.addDep, lines 124-140
AddDep(dest, source) ==
    /\ deps' = IF dest # source THEN deps \cup {<<dest, source>>} ELSE deps
    /\ symbols' = symbols \cup {dest, source}
    /\ last' = Call("addDep", "")
    /\ UNCHANGED <<confs, constructed, selection>>

\* addConflict without its test for a pair stored already: the pair is
\* inserted as given, beside its reverse if that one is there.
AddConflict_noReverseCheck(sym1, sym2) ==
    IF sym1 = sym2
    THEN /\ last' = Call("addConflict", "AssertionError")
         /\ UNCHANGED <<deps, confs, symbols, constructed, selection>>
    ELSE /\ confs' = confs \cup {<<sym1, sym2>>}
         /\ symbols' = symbols \cup {sym1, sym2}
         /\ last' = Call("addConflict", "")
         /\ UNCHANGED <<deps, constructed, selection>>

\* addConflict without its update of the symbol universe.
AddConflict_forgetsSymbols(sym1, sym2) ==
    IF sym1 = sym2
    THEN /\ last' = Call("addConflict", "AssertionError")
         /\ UNCHANGED <<deps, confs, symbols, constructed, selection>>
    ELSE /\ confs' = IF <<sym1, sym2>> \notin confs /\ <<sym2, sym1>> \notin confs
                     THEN confs \cup {<<sym1, sym2>>} ELSE confs
         /\ last' = Call("addConflict", "")
         /\ UNCHANGED <<deps, symbols, constructed, selection>>

\* RuleSet.addConflict, lines 144-160
AddConflict(sym1, sym2) ==
    IF sym1 = sym2
    THEN /\ last' = Call("addConflict", "AssertionError")
         /\ UNCHANGED <<deps, confs, symbols, constructed, selection>>
    ELSE /\ confs' = IF <<sym1, sym2>> \notin confs /\ <<sym2, sym1>> \notin confs
                     THEN confs \cup {<<sym1, sym2>>} ELSE confs
         /\ symbols' = symbols \cup {sym1, sym2}
         /\ last' = Call("addConflict", "")
         /\ UNCHANGED <<deps, constructed, selection>>

\* Options.__init__ without its assert: an object over any rule set.
NewOptions_noAssert ==
    /\ ~constructed
    /\ selection' = {}
    /\ constructed' = TRUE
    /\ last' = Call("Options", "")
    /\ UNCHANGED <<deps, confs, symbols>>

\* Options.__init__, lines 17-29: the selection of the new object is set
\* first; a failed assert (or an exception of isCoherent) leaves no object.
NewOptions ==
    /\ ~constructed
    /\ LET r == isCoherent
           exc == IF r.exc # "" THEN r.exc
                  ELSE IF r.val THEN "" ELSE "AssertionError"
       IN  /\ selection' = {}
           /\ constructed' = (exc = "")
           /\ last' = Call("Options", exc)
    /\ UNCHANGED <<deps, confs, symbols>>

\* Options.toggle, lines 91-105
Toggle(opt) ==
    /\ constructed
    /\ \E r \in toggle(selection, opt) :
          /\ selection' = r.sel
          /\ last' = Call("toggle", r.exc)
    /\ UNCHANGED <<deps, confs, symbols, constructed>>

(* The callers keep the build-then-freeze discipline the rule set is       *)
(* written for: relations are registered first, then one Options object is *)
(* constructed over the rule set and toggled.  The caller of Spec          *)
(* registers at most MaxDeps dependencies and MaxConfs conflicts over Sym, *)
(* and may toggle any symbol of Sym, one the rule set has never seen       *)
(* included.                                                               *)
Next ==
    \/ /\ ~constructed
       /\ \E dest \in Sym, source \in Sym :
             /\ Cardinality(deps \cup {<<dest, source>>}) <= MaxDeps
             /\ AddDep(dest, source)
    \/ /\ ~constructed
       /\ \E sym1 \in Sym, sym2 \in Sym :
             /\ Cardinality(confs \cup {<<sym1, sym2>>}) <= MaxConfs
             /\ AddConflict(sym1, sym2)
    \/ NewOptions
    \/ \E opt \in Sym : Toggle(opt)

Spec == Init /\ [][Next]_vars

(* A second caller, for rule sets with two dependency cycles and symbols    *)
(* beside them: it registers relations of a fixed menu over six symbols,    *)
(* and toggles symbols of the universe only.                                *)
CycDeps == {<<"a", "b">>, <<"b", "a">>, <<"c", "d">>, <<"d", "c">>,
            <<"a", "c">>, <<"a", "e">>, <<"e", "d">>, <<"f", "f">>}

CycConfs == {<<"c", "e">>, <<"e", "c">>, <<"e", "f">>}

NextCyc ==
    \/ ~constructed /\ \E p \in CycDeps : AddDep(p[1], p[2])
    \/ ~constructed /\ \E p \in CycConfs : AddConflict(p[1], p[2])
    \/ NewOptions
    \/ \E opt \in symbols : Toggle(opt)

SpecCyc == Init /\ [][NextCyc]_vars

-----------------------------------------------------------------------------
(* Dependency and conflict as relations on the stored pairs, for stating    *)
(* what the calls are to compute: y is reachable from x when a chain of one *)
(* or more stored dependency edges leads from x to y.                       *)

Successors(S) == {p[2] : p \in {q \in deps : q[1] \in S}}

RECURSIVE Grow(_)
Grow(S) == LET N == S \cup Successors(S) IN IF N = S THEN S ELSE Grow(N)

Reaches(x, y) == y \in Grow(Successors({x}))

DependsOn(x, y) == x = y \/ Reaches(x, y)

Dependants(x) == {y \in symbols \ {x} : Reaches(y, x)}

Dependencies(x) == {y \in symbols \ {x} : Reaches(x, y)}

InConflict(x, y) == <<x, y>> \in confs \/ <<y, x>> \in confs

Conflicts(x) == {y \in symbols : InConflict(x, y)}

Coherent ==
    \A c \in confs :
        /\ ~DependsOn(c[1], c[2])
        /\ ~DependsOn(c[2], c[1])
        /\ ~\E x \in symbols \ {c[1], c[2]} : DependsOn(x, c[1]) /\ DependsOn(x, c[2])

ToggleCompleted == last.op = "toggle" /\ last.exc = ""

-----------------------------------------------------------------------------
\* C1: over a coherent rule set, with toggles on symbols of the universe
\* only, the selection after each completed toggle never holds both members
\* of a stored conflict pair.
C1_NoConflictSelected ==
    ToggleCompleted => \A c \in confs : ~(c[1] \in selection /\ c[2] \in selection)

\* C2: over a coherent rule set, with toggles on symbols of the universe
\* only, the selection after each completed toggle is closed under
\* dependency: every symbol a selected symbol transitively depends on is
\* selected.
C2_DependencyClosed ==
    ToggleCompleted => \A x \in selection : Dependencies(x) \subseteq selection

\* C3: areDependent returns for every pair of symbols of the universe on
\* every dependency graph, cyclic ones included, and so do the constructor's
\* isCoherent and toggle, which call it: none ends in unbounded recursion.
C3_AreDependentReturns ==
    /\ \A x \in symbols, y \in symbols : areDependent(x, y).exc = ""
    /\ last.exc # "RuntimeError"

\* C4: whenever areDependent(dest, source) returns for two symbols of the
\* universe, it returns true exactly when dest = source or source is
\* reachable from dest over one or more stored dependency edges; so
\* areDependent(x, x) is true for every symbol x of the universe.
C4_AreDependentIsReachability ==
    \A x \in symbols, y \in symbols :
        LET r == areDependent(x, y)
        IN  r.exc = "" => /\ r.val = (x = y \/ Reaches(x, y))
                          /\ (x = y => r.val)

\* A toggle has computed the dependencies of a symbol that reaches another
\* one only over a chain of three edges or more (the recursion case), and
\* of a symbol that does not reach another although both have neighbours.
C4_Witness ==
    /\ ToggleCompleted
    /\ \E x \in symbols, y \in symbols :
          /\ x # y /\ <<x, y>> \notin deps
          /\ check_dst(x) \cap check_src(y) = {}
          /\ areDependent(x, y) = Ok(TRUE)
    /\ \E x \in symbols, y \in symbols :
          /\ check_dst(x) # {} /\ check_src(y) # {}
          /\ areDependent(x, y) = Ok(FALSE)

\* C5: isCoherent returns true exactly when no stored conflict pair is
\* connected by dependency in either direction and no third symbol depends
\* on both members of a stored conflict pair.
C5_IsCoherentDecides ==
    (isCoherent = Ok(TRUE)) <=> Coherent

Store == <<deps, confs, symbols>>

C8_UnknownToggleKeepsSelection ==
    [][\A opt \in Sym :
          (Toggle(opt) /\ opt \notin symbols) =>
              (last'.exc # "" /\ selection' = selection)]_vars

\* C9: toggle(opt) on a selected opt of the universe removes from the
\* selection exactly opt and the transitive dependants of opt.
C9_SwitchOffRemovesDependants ==
    [][\A opt \in symbols :
          (Toggle(opt) /\ opt \in selection) =>
              selection' = selection \ ({opt} \cup Dependants(opt))]_vars

\* C10: toggle(opt) on an unselected opt of the universe, from selection S,
\* yields (S + {opt} + D) minus (K + the transitive dependants of the members
\* of K), with D the transitive dependencies of opt and K the direct
\* conflicts of opt and of the members of D.
C10_SwitchOnCascade ==
    [][\A opt \in symbols :
          (Toggle(opt) /\ opt \notin selection) =>
              LET D == Dependencies(opt)
                  K == UNION {Conflicts(d) : d \in D \cup {opt}}
                  off == K \cup UNION {Dependants(k) : k \in K}
              IN  selection' = (selection \cup {opt} \cup D) \ off]_vars

\* C11: in every reachable state, whether the calls so far returned or
\* raised, the selection is a subset of the symbol universe.
C11_SelectionInUniverse == selection \subseteq symbols

\* C12: registration is idempotent.  A returning addDep(d, s) or
\* addConflict(a, b) leaves its pair stored (for addConflict in one of the two
\* orientations; addDep(d, d) stores none) and its symbols in the universe;
\* applied to a store that is already so, addDep(d, s), addConflict(a, b) and
\* addConflict(b, a) leave the store as it is; and no conflict is ever
\* stored in both orientations.
C12_RegistrationIdempotent ==
    [][/\ \A c \in confs' : <<c[2], c[1]>> \notin confs'
       /\ \A p \in CycDeps :
             AddDep(p[1], p[2]) =>
                /\ (p[1] = p[2] \/ p \in deps') /\ {p[1], p[2]} \subseteq symbols'
                /\ ((p[1] = p[2] \/ p \in deps) /\ {p[1], p[2]} \subseteq symbols)
                      => Store' = Store
       /\ \A p \in CycConfs :
             (AddConflict(p[1], p[2]) /\ last'.exc = "") =>
                /\ InConflict(p[1], p[2])' /\ {p[1], p[2]} \subseteq symbols'
                /\ (InConflict(p[1], p[2]) /\ {p[1], p[2]} \subseteq symbols)
                      => Store' = Store]_vars

\* addConflict has just returned on a store that holds a dependency pair
\* and a conflict pair both of whose orientations the caller registers,
\* stored in one of them: the state the first registration leaves and every
\* repetition of it, in either order of the arguments, leaves again.
C12_Witness ==
    /\ last = Call("addConflict", "")
    /\ deps # {}
    /\ \E c \in confs :
          /\ <<c[2], c[1]>> \in CycConfs
          /\ <<c[2], c[1]>> \notin confs
          /\ {c[1], c[2]} \subseteq symbols

\* C13: for all symbols a, b of the universe, allConflicts(a) contains b
\* exactly when allConflicts(b) contains a, and allConflicts(a) is exactly
\* the set of symbols that share a stored conflict pair with a, in whichever
\* order the pair was registered; a chain of conflicts relates nothing.
C13_ConflictsSymmetricDirect ==
    \A a \in symbols :
        /\ getAllConflicts(a) = Ok(Conflicts(a))
        /\ \A b \in symbols :
              (b \in getAllConflicts(a).val) <=> (a \in getAllConflicts(b).val)

\* The universe holds a chain of two conflicts x - y - z; x is the second
\* member of its stored pair, and its conflicts are y alone.
C13_Witness ==
    \E x \in symbols, y \in symbols, z \in symbols :
        /\ x # z
        /\ <<y, x>> \in confs /\ InConflict(y, z) /\ ~InConflict(x, z)
        /\ getAllConflicts(x) = Ok({y})
        /\ getAllConflicts(y) = Ok({x, z})

\* C14: for all symbols a, b, c of the universe, if areDependent(a, b) and
\* areDependent(b, c) both return true then areDependent(a, c) returns true.
C14_AreDependentTransitive ==
    \A a \in symbols, b \in symbols, c \in symbols :
        (areDependent(a, b) = Ok(TRUE) /\ areDependent(b, c) = Ok(TRUE))
            => areDependent(a, c) = Ok(TRUE)

\* C15: the rule set is append-only.  No step takes a symbol out of the
\* universe or a pair out of the dependency set or the conflict set, and
\* after every returning addDep or addConflict both arguments are in the
\* universe.
C15_AppendOnly ==
    [][/\ deps \subseteq deps' /\ confs \subseteq confs' /\ symbols \subseteq symbols'
       /\ \A p \in CycDeps :
             AddDep(p[1], p[2]) => (last'.exc = "" /\ {p[1], p[2]} \subseteq symbols')
       /\ \A p \in CycConfs :
             (AddConflict(p[1], p[2]) /\ last'.exc = "") =>
                {p[1], p[2]} \subseteq symbols']_vars

\* Registrations of both kinds, a construction and a toggle that changed
\* the selection have taken place, and every registered pair is still
\* stored with its symbols in the universe.
C15_Witness ==
    /\ last.op = "toggle"
    /\ selection # {}
    /\ Cardinality(deps) >= 2
    /\ confs # {}
    /\ \A p \in deps \cup confs : {p[1], p[2]} \subseteq symbols

\* C16: over a coherent rule set toggle(opt) on a symbol of the universe
\* flips opt: an opt that was not selected is selected afterwards together
\* with every symbol of allDependencies(opt), and an opt that was selected
\* is not selected afterwards.
C16_ToggleFlips ==
    [][\A opt \in symbols :
          /\ (Toggle(opt) /\ opt \notin selection) =>
                ({opt} \cup Dependencies(opt)) \subseteq selection'
          /\ (Toggle(opt) /\ opt \in selection) => opt \notin selection']_vars

\* C17: for the same rule set and the same prior selection, every order of
\* switching off the conflicts of opt and of the conflicts of opt's
\* dependencies leaves the same selection after __switch_on(opt).
C17_SwitchOnOrderIndependent ==
    constructed =>
        \A opt \in symbols \ selection :
            \A r1 \in switch_on(selection, opt), r2 \in switch_on(selection, opt) :
                r1.sel = r2.sel

\* C18: for all distinct symbols x, y of the universe, x is in
\* allDependants(y) exactly when y is in allDependencies(x), and neither
\* result holds the queried symbol itself, on a dependency cycle or off it.
C18_DependantsConverse ==
    /\ \A x \in symbols :
          getAllDependencies(x).exc = "" /\ getAllDependants(x).exc = ""
    /\ \A x \in symbols :
          /\ x \notin getAllDependencies(x).val
          /\ x \notin getAllDependants(x).val
          /\ \A y \in symbols \ {x} :
                (x \in getAllDependants(y).val) <=> (y \in getAllDependencies(x).val)

====
